---------------------------- MODULE Spec2Model ----------------------------
(***************************************************************************)
(* Model of final.py: the Airflow DAG "Load_csv_file2" with its two tasks  *)
(*   create_table (create_table_if_missed) >> load_csv (load_data).        *)
(*                                                                         *)
(* Text is a sequence of one-character strings, so that str.strip and      *)
(* str.lower are computed and not assumed.  A missing CSV field is NaN,    *)
(* as pandas.read_csv yields it.                                           *)
(***************************************************************************)
EXTENDS Integers, Sequences, FiniteSets, TLC

(***************************************************************************)
(* Bounds of the model.                                                    *)
(***************************************************************************)
\* Data rows of the largest input file, beyond the cap of 50.
ExtraRows == 2

(***************************************************************************)
(* Program constants.                                                      *)
(***************************************************************************)
\* df.head(50), final.py:78
HeadLimit == 50
\* A batch size that is not the cap.
batch_size_half == HeadLimit \div 2

\* batch_size = 50, final.py:94
batch_size == 50
\* default_args["retries"] = 1, final.py:116
retries == 1

\* The DAG runs of the model (schedule_interval=None: each is a manual
\* trigger).  Two runs share the one table and interleave freely.
Runs == {1, 2}
MaxRows == HeadLimit + ExtraRows

\* context["run_id"]: Airflow gives every DAG run of a dag its own run_id
\* (unique per dag_id); every try of a task of that run sees the same one.
RunIdOf(r) == <<"r", "u", "n", ToString(r)>>

Tasks == {"create_table", "load_csv"}

(***************************************************************************)
(* Text helpers: str.strip(), str.lower(), astype(str).                    *)
(***************************************************************************)
\* Missing-value markers.  Each is a one-element sequence whose element is
\* not a single character, so no text equals it.
NaN == <<"<NaN>">>
NaT == <<"<NaT>">>
None == <<"<None>">>

Whitespace == {" ", "\t"}

UpperToLower ==
  [c \in {"A", "B", "C", "D", "E", "H", "I", "M", "N", "O", "R", "S", "T", "U", "X"} |->
     CASE c = "A" -> "a" [] c = "B" -> "b" [] c = "C" -> "c" [] c = "D" -> "d"
       [] c = "E" -> "e" [] c = "H" -> "h" [] c = "I" -> "i" [] c = "M" -> "m"
       [] c = "N" -> "n" [] c = "O" -> "o" [] c = "R" -> "r" [] c = "S" -> "s"
       [] c = "T" -> "t" [] c = "U" -> "u" [] c = "X" -> "x"]

LowerChar(c) == IF c \in DOMAIN UpperToLower THEN UpperToLower[c] ELSE c

\* str.lower()
Lower(s) == [k \in 1..Len(s) |-> LowerChar(s[k])]

RECURSIVE LStrip(_)
LStrip(s) == IF s # <<>> /\ Head(s) \in Whitespace THEN LStrip(Tail(s)) ELSE s

RECURSIVE RStrip(_)
RStrip(s) ==
  IF s # <<>> /\ s[Len(s)] \in Whitespace THEN RStrip(SubSeq(s, 1, Len(s) - 1)) ELSE s

\* str.strip()
Strip(s) == RStrip(LStrip(s))

\* Series.astype(str) on an object column: a string stays, NaN becomes "nan".
AsTypeStr(v) == IF v = NaN THEN <<"n", "a", "n">> ELSE v

(***************************************************************************)
(* pd.to_datetime(..., errors="coerce").dt.date, for ISO YYYY-MM-DD text.  *)
(***************************************************************************)
DigitVal ==
  [c \in {"0", "1", "2", "3", "4", "5", "6", "7", "8", "9"} |->
     CASE c = "0" -> 0 [] c = "1" -> 1 [] c = "2" -> 2 [] c = "3" -> 3 [] c = "4" -> 4
       [] c = "5" -> 5 [] c = "6" -> 6 [] c = "7" -> 7 [] c = "8" -> 8 [] c = "9" -> 9]

IsIsoShape(s) ==
  /\ Len(s) = 10
  /\ s[5] = "-" /\ s[8] = "-"
  /\ \A k \in {1, 2, 3, 4, 6, 7, 9, 10} : s[k] \in DOMAIN DigitVal

DaysIn(y, m) ==
  IF m \in {4, 6, 9, 11} THEN 30
  ELSE IF m = 2
       THEN (IF (y % 4 = 0 /\ y % 100 # 0) \/ y % 400 = 0 THEN 29 ELSE 28)
       ELSE 31

ToDate(v) ==
  IF v = NaN THEN NaT
  ELSE IF ~IsIsoShape(v) THEN NaT
  ELSE LET y == 1000 * DigitVal[v[1]] + 100 * DigitVal[v[2]] + 10 * DigitVal[v[3]] + DigitVal[v[4]]
           m == 10 * DigitVal[v[6]] + DigitVal[v[7]]
           d == 10 * DigitVal[v[9]] + DigitVal[v[10]]
       IN IF m \in 1..12 /\ d \in 1..DaysIn(y, m) THEN <<"date", ToString(y), ToString(m), ToString(d)>>
          ELSE NaT


(***************************************************************************)
(* Input files: what may sit at CSV_PATH when load_data reads it.  A file  *)
(* is described by its header, its number of data rows and a pattern that  *)
(* gives every cell; ReadCsv turns the description into the DataFrame.     *)
(***************************************************************************)
customer_name == <<"c", "u", "s", "t", "o", "m", "e", "r", "_", "n", "a", "m", "e">>
address == <<"a", "d", "d", "r", "e", "s", "s">>
birth_date == <<"b", "i", "r", "t", "h", "_", "d", "a", "t", "e">>

HeaderPlain ==
  << [name |-> customer_name, kind |-> "name"],
     [name |-> address, kind |-> "addr"],
     [name |-> birth_date, kind |-> "birth"] >>

\* Reordered, padded, mixed case, with a column the loader does not use.
HeaderMessy ==
  << [name |-> <<" ", "B", "i", "r", "t", "h", "_", "D", "a", "t", "e">>, kind |-> "birth"],
     [name |-> <<"E", "X", "T", "R", "A">>, kind |-> "extra"],
     [name |-> <<"C", "u", "s", "t", "o", "m", "e", "r", "_", "N", "a", "m", "e", " ">>, kind |-> "name"],
     [name |-> <<"\t", "A", "D", "D", "R", "E", "S", "S">>, kind |-> "addr"] >>

HeaderNoBirth ==
  << [name |-> customer_name, kind |-> "name"],
     [name |-> address, kind |-> "addr"] >>

HeaderOnlyAddress ==
  << [name |-> <<"A", "d", "d", "r", "e", "s", "s">>, kind |-> "addr"],
     [name |-> <<"e", "x", "t", "r", "a">>, kind |-> "extra"] >>

CellOf(kind, pattern, i) ==
  CASE kind = "name" ->
         (IF pattern = "allws" THEN <<" ", " ">>
          ELSE IF pattern = "ws2" /\ i = 2 THEN <<" ", "\t">>
          ELSE IF pattern = "na1" /\ i = 1 THEN NaN
          ELSE IF i % 2 = 1 THEN <<"a", "n", "n">>
          ELSE <<" ", "b", "o", "b", " ">>)
    [] kind = "addr" ->
         (IF i % 3 = 0 THEN NaN ELSE <<"s", "t">>)
    [] kind = "birth" ->
         (IF i % 3 = 1 THEN <<"2", "0", "0", "0", "-", "0", "2", "-", "2", "9">>
          ELSE IF i % 3 = 2 THEN <<"2", "0", "0", "1", "-", "0", "2", "-", "2", "9">>
          ELSE NaN)
    [] OTHER -> <<"x">>

File(h, n, p) == [exists |-> TRUE, header |-> h, n |-> n, pattern |-> p]

Files ==
  { [exists |-> FALSE, header |-> <<>>, n |-> 0, pattern |-> "good"],
    File(HeaderNoBirth, 2, "good"),
    File(HeaderOnlyAddress, 1, "good"),
    File(HeaderPlain, 0, "good"),
    File(HeaderPlain, 2, "allws"),
    File(HeaderMessy, 2, "good"),
    File(HeaderPlain, 3, "na1"),
    File(HeaderPlain, 3, "ws2"),
    File(HeaderPlain, HeadLimit, "good"),
    File(HeaderMessy, MaxRows, "ws2") }

\* pd.read_csv(CSV_PATH, sep=";"): the frame keeps the file's row order; every
\* row carries its position in the file (the frame's index).
ReadCsv(f) ==
  [ columns |-> [k \in 1..Len(f.header) |-> f.header[k].name],
    rows |-> [i \in 1..f.n |->
                [line |-> i,
                 cells |-> [k \in 1..Len(f.header) |-> CellOf(f.header[k].kind, f.pattern, i)]]] ]

(***************************************************************************)
(* load_data, lines 60-82: from the file to the list of records.           *)
(***************************************************************************)
Range(s) == {s[k] : k \in 1..Len(s)}

\* df.columns = [str(c).strip().lower() for c in df.columns]
NormalizeColumns(cols) == [k \in 1..Len(cols) |-> Lower(Strip(cols[k]))]

\* A validation that forgets a column.
expected_noBirthDate == {customer_name, address}

expected == {customer_name, address, birth_date}

\* The columns line 70 selects.
projected == {customer_name, address, birth_date}

\* missing = expected - set(df.columns)
Missing(cols) == expected \ Range(cols)

Col(cols, row, name) == row.cells[CHOOSE k \in 1..Len(cols) : cols[k] = name]

\* Stamping the dag_id where the run_id belongs.
TransformRow_dagId(cols, row, run_id) ==
  [ customer_name |-> Strip(AsTypeStr(Col(cols, row, customer_name))),
    address |-> Col(cols, row, address),
    birth_date |-> ToDate(Col(cols, row, birth_date)),
    airflow_run_id |-> <<"L", "o", "a", "d", "_", "c", "s", "v", "_", "f", "i", "l", "e", "2">>,
    line |-> row.line ]

\* df[["customer_name", "address", "birth_date"]], to_datetime(...).dt.date,
\* df["airflow_run_id"] = context["run_id"], astype(str).str.strip()
TransformRow(cols, row, run_id) ==
  [ customer_name |-> Strip(AsTypeStr(Col(cols, row, customer_name))),
    address |-> Col(cols, row, address),
    birth_date |-> ToDate(Col(cols, row, birth_date)),
    airflow_run_id |-> run_id,
    line |-> row.line ]

Transformed(cols, rows, run_id) ==
  [i \in 1..Len(rows) |-> TransformRow(cols, rows[i], run_id)]

\* df[df["customer_name"] != ""]: a filter that keeps the order.
NonEmptyName(rows, n) ==
  LET F[k \in 0..n] ==
        IF k = 0 THEN <<>>
        ELSE IF rows[k].customer_name # <<>> THEN Append(F[k - 1], rows[k]) ELSE F[k - 1]
  IN F[n]

\* df.head(50)
HeadRows(rows) == SubSeq(rows, 1, IF Len(rows) < HeadLimit THEN Len(rows) ELSE HeadLimit)

\* df.where(pd.notnull(df), None)
NullCell(v) == IF v = NaN \/ v = NaT THEN None ELSE v

NullRow(row) ==
  [ customer_name |-> NullCell(row.customer_name),
    address |-> NullCell(row.address),
    birth_date |-> NullCell(row.birth_date),
    airflow_run_id |-> NullCell(row.airflow_run_id),
    line |-> row.line ]

\* head(50) taken before the empty names are filtered out.
Records_headFirst(cols, rows, run_id) ==
  LET t == HeadRows(Transformed(cols, rows, run_id))
      h == NonEmptyName(t, Len(t))
  IN [i \in 1..Len(h) |-> NullRow(h[i])]

\* Lines 70-81 in the order the code runs them: transform, filter, head, nulls.
Records(cols, rows, run_id) ==
  LET t == Transformed(cols, rows, run_id)
      h == HeadRows(NonEmptyName(t, Len(t)))
  IN [i \in 1..Len(h) |-> NullRow(h[i])]


\* The early return left out.
NoRecords_never(records) == FALSE

\* if not records: ... return
NoRecords(records) == records = <<>>

NoError == [type |-> "none", missing |-> {}, found |-> <<>>]
Error(t) == [type |-> t, missing |-> {}, found |-> <<>>]

\* What lines 57-88 of load_data come to for file f: an exception, the early
\* return, or the records to insert.
Prepared(f, run_id) ==
  IF ~f.exists
  THEN [kind |-> "raise", err |-> Error("FileNotFoundError"), records |-> <<>>]
  ELSE LET df == ReadCsv(f)
           cols == NormalizeColumns(df.columns)
       IN IF Missing(cols) # {}
          THEN [kind |-> "raise",
                err |-> [type |-> "ValueError", missing |-> Missing(cols), found |-> cols],
                records |-> <<>>]
          ELSE IF ~(projected \subseteq Range(cols))
          THEN [kind |-> "raise", err |-> Error("KeyError"), records |-> <<>>]
          ELSE LET recs == Records(cols, df.rows, run_id)
               IN IF NoRecords(recs)
                  THEN [kind |-> "empty", err |-> NoError, records |-> recs]
                  ELSE [kind |-> "records", err |-> NoError, records |-> recs]

Msg(m, a, b) == [msg |-> m, a |-> a, b |-> b]

\* The log lines of load_data up to the point Prepared(f, _) reaches.
PreparedLog(f, out) ==
  <<Msg("Loading data from CSV", 0, 0)>>
  \o (IF f.exists THEN <<Msg("Missing columns check", 0, 0)>> ELSE <<>>)
  \o (IF out.kind = "raise" THEN <<>> ELSE <<Msg("Prepared records", Len(out.records), 0)>>)
  \o (IF out.kind = "empty" THEN <<Msg("No records to insert.", 0, 0)>> ELSE <<>>)

(***************************************************************************)
(* The DAG, lines 110-133.                                                 *)
(***************************************************************************)
\* The dependency left out.
Upstream_none(t) == {}

\* create_table >> load_csv
Upstream(t) == IF t = "load_csv" THEN {"create_table"} ELSE {}

\* The columns of CREATE TABLE, lines 39-46.
TableColumns ==
  {"id", "customer_name", "address", "birth_date", "airflow_run_id", "loaded_at"}

\* autocommit switched on in both callables.
Autocommit_always(t) == TRUE

\* pyodbc connections start with autocommit off; load_data leaves it so,
\* create_table_if_missed sets cn.autocommit = True (line 51).
Autocommit(t) == t = "create_table"

\* CREATE TABLE without the guard.
ObjectIdIsNull_always(exists) == TRUE

\* IF OBJECT_ID('dbo.uinque_values', 'U') IS NULL
ObjectIdIsNull(exists) == ~exists

Min(a, b) == IF a < b THEN a ELSE b


(***************************************************************************)
(* State.                                                                  *)
(***************************************************************************)
VARIABLES
  file,        \* what sits at CSV_PATH
  dagrun,      \* dagrun[r]: "none" (not triggered), "running", "success", "failed"
  ti,          \* ti[r][t]: the task instance: [state, try_number]
  pc,          \* pc[r][t]: where the task's callable is ("idle": not executing)
  conn,        \* conn[r][t]: the pyodbc connection cn: [open, autocommit, txn]
  raised,      \* raised[r][t]: the exception the callable went out with
  ld,          \* ld[r]: load_data's locals: [records, i, total]
  log,         \* log[r]: what load_data logged in its current try
  calls,       \* calls[r][t]: per try, how often connect / executemany / commit / DDL ran
  atStart,     \* atStart[r]: whether the table existed when create_table's try began
  tableExists, \* whether dbo.uinque_values exists
  tableCols,   \* its columns
  table,       \* its committed rows
  ddlCount     \* CREATE TABLE statements that took effect

vars == <<file, dagrun, ti, pc, conn, raised, ld, log, calls, atStart,
          tableExists, tableCols, table, ddlCount>>

dbVars == <<file, tableExists, tableCols, table, ddlCount>>

Closed == [open |-> FALSE, autocommit |-> FALSE, txn |-> {}]
NoCalls == [connect |-> 0, executemany |-> 0, commit |-> 0, ddl |-> 0]
NoLocals == [records |-> <<>>, i |-> 0, total |-> 0]

Init ==
  /\ file \in Files
  /\ dagrun = [r \in Runs |-> "none"]
  /\ ti = [r \in Runs |-> [t \in Tasks |-> [state |-> "none", try_number |-> 0]]]
  /\ pc = [r \in Runs |-> [t \in Tasks |-> "idle"]]
  /\ conn = [r \in Runs |-> [t \in Tasks |-> Closed]]
  /\ raised = [r \in Runs |-> [t \in Tasks |-> NoError]]
  /\ ld = [r \in Runs |-> NoLocals]
  /\ log = [r \in Runs |-> <<>>]
  /\ calls = [r \in Runs |-> [t \in Tasks |-> NoCalls]]
  /\ atStart = [r \in Runs |-> FALSE]
  /\ tableExists = FALSE
  /\ tableCols = {}
  /\ table = {}
  /\ ddlCount = 0

(***************************************************************************)
(* The orchestrator: what the DAG declaration asks of Airflow.             *)
(***************************************************************************)
\* A manual trigger creates the DAG run.
Trigger(r) ==
  /\ dagrun[r] = "none"
  /\ dagrun' = [dagrun EXCEPT ![r] = "running"]
  /\ UNCHANGED <<ti, pc, conn, raised, ld, log, calls, atStart, dbVars>>

FirstStep(t) == IF t = "create_table" THEN "connect" ELSE "prepare"

\* A task instance runs once all its upstream tasks have succeeded
\* (trigger rule all_success), for the first time or as a retry.
TaskStart(r, t) ==
  /\ dagrun[r] = "running"
  /\ ti[r][t].state \in {"none", "up_for_retry"}
  /\ \A u \in Upstream(t) : ti[r][u].state = "success"
  /\ ti' = [ti EXCEPT ![r][t] = [state |-> "running", try_number |-> @.try_number + 1]]
  /\ pc' = [pc EXCEPT ![r][t] = FirstStep(t)]
  /\ atStart' = IF t = "create_table" THEN [atStart EXCEPT ![r] = tableExists] ELSE atStart
  /\ UNCHANGED <<dagrun, conn, raised, ld, log, calls, dbVars>>

\* The callable has returned or raised: the try ends.  An exception makes the
\* task up_for_retry while tries remain (retries = 1), failed after that.  The
\* try's process ends, and with it whatever the callable left open.
TaskFinish(r, t) ==
  /\ pc[r][t] \in {"returned", "raised"}
  /\ ti' = [ti EXCEPT ![r][t].state =
              IF pc[r][t] = "returned" THEN "success"
              ELSE IF ti[r][t].try_number <= retries THEN "up_for_retry"
              ELSE "failed"]
  /\ pc' = [pc EXCEPT ![r][t] = "idle"]
  /\ conn' = [conn EXCEPT ![r][t] = Closed]
  /\ raised' = [raised EXCEPT ![r][t] = NoError]
  /\ calls' = [calls EXCEPT ![r][t] = NoCalls]
  /\ atStart' = IF t = "create_table" THEN [atStart EXCEPT ![r] = FALSE] ELSE atStart
  /\ ld' = IF t = "load_csv" THEN [ld EXCEPT ![r] = NoLocals] ELSE ld
  /\ log' = IF t = "load_csv" THEN [log EXCEPT ![r] = <<>>] ELSE log
  /\ UNCHANGED <<dagrun, dbVars>>

\* A task whose upstream task failed is never run.
UpstreamFailed(r, t) ==
  /\ dagrun[r] = "running"
  /\ ti[r][t].state = "none"
  /\ \E u \in Upstream(t) : ti[r][u].state \in {"failed", "upstream_failed"}
  /\ ti' = [ti EXCEPT ![r][t].state = "upstream_failed"]
  /\ UNCHANGED <<dagrun, pc, conn, raised, ld, log, calls, atStart, dbVars>>

\* The run ends when every task has: failed unless every task succeeded.
DagRunFinish(r) ==
  /\ dagrun[r] = "running"
  /\ \A t \in Tasks : ti[r][t].state \in {"success", "failed", "upstream_failed"}
  /\ dagrun' = [dagrun EXCEPT ![r] =
                  IF \A t \in Tasks : ti[r][t].state = "success" THEN "success" ELSE "failed"]
  /\ UNCHANGED <<ti, pc, conn, raised, ld, log, calls, atStart, dbVars>>

(***************************************************************************)
(* Leaving a callable.                                                     *)
(*                                                                         *)
(* pyodbc's Connection.__exit__ ends the transaction (commit on a normal   *)
(* exit, rollback on an exception, nothing under autocommit) and does not  *)
(* close the connection; the connection closes when the Connection object  *)
(* is freed.  On a normal return the frame's locals cn and cur are freed   *)
(* as the function returns.  On an exception the traceback keeps the frame *)
(* and so the connection until the exception itself is dropped.            *)
(***************************************************************************)
Return(r, t) ==
  /\ pc' = [pc EXCEPT ![r][t] = "returned"]
  /\ conn' = [conn EXCEPT ![r][t] = Closed]
  /\ raised' = raised

\* An exception before any connection exists.
RaiseUnconnected(r, t, e) ==
  /\ pc' = [pc EXCEPT ![r][t] = "raised"]
  /\ raised' = [raised EXCEPT ![r][t] = e]
  /\ conn' = conn

\* An exception inside the with block: __exit__ rolls the open transaction
\* back and the exception leaves the function.
RaiseInWith(r, t, e) ==
  /\ pc' = [pc EXCEPT ![r][t] = "raised"]
  /\ raised' = [raised EXCEPT ![r][t] = e]
  /\ conn' = [conn EXCEPT ![r][t].txn = {}]


(***************************************************************************)
(* create_table_if_missed, lines 34-53.                                    *)
(***************************************************************************)
CT == "create_table"

\* pyodbc.connect(conn_str, timeout=30); cn.autocommit = True; cn.cursor()
CT_Connect(r) ==
  /\ pc[r][CT] = "connect"
  /\ calls' = [calls EXCEPT ![r][CT].connect = @ + 1]
  /\ \/ /\ conn' = [conn EXCEPT ![r][CT] =
                      [open |-> TRUE, autocommit |-> Autocommit(CT), txn |-> {}]]
        /\ pc' = [pc EXCEPT ![r][CT] = "check"]
        /\ raised' = raised
     \/ RaiseUnconnected(r, CT, Error("OperationalError"))
  /\ UNCHANGED <<dagrun, ti, ld, log, atStart, dbVars>>

\* cur.execute(sql), first half: the server evaluates the IF.  With the table
\* there the batch ends, the with block is left and the function returns.
CT_Check(r) ==
  /\ pc[r][CT] = "check"
  /\ \/ /\ ObjectIdIsNull(tableExists)
        /\ pc' = [pc EXCEPT ![r][CT] = "create"]
        /\ UNCHANGED <<conn, raised>>
     \/ /\ ~ObjectIdIsNull(tableExists)
        /\ Return(r, CT)
     \/ RaiseInWith(r, CT, Error("OperationalError"))
  /\ UNCHANGED <<dagrun, ti, ld, log, calls, atStart, dbVars>>

\* cur.execute(sql), second half: CREATE TABLE.  Another session may have
\* created the table since the IF was evaluated; the server then refuses.
CT_Create(r) ==
  /\ pc[r][CT] = "create"
  /\ \/ /\ ~tableExists
        /\ tableExists' = TRUE
        /\ tableCols' = TableColumns
        /\ ddlCount' = ddlCount + 1
        /\ calls' = [calls EXCEPT ![r][CT].ddl = @ + 1]
        /\ Return(r, CT)
     \/ /\ tableExists
        /\ RaiseInWith(r, CT, Error("ProgrammingError: already an object"))
        /\ UNCHANGED <<tableExists, tableCols, ddlCount, calls>>
     \/ /\ RaiseInWith(r, CT, Error("OperationalError"))
        /\ UNCHANGED <<tableExists, tableCols, ddlCount, calls>>
  /\ UNCHANGED <<file, dagrun, ti, ld, log, atStart, table>>

(***************************************************************************)
(* load_data, lines 56-107.                                                *)
(***************************************************************************)
LD == "load_csv"

\* Lines 57-88: read, validate, transform; raise, return early or go on.
L_Prepare(r) ==
  /\ pc[r][LD] = "prepare"
  /\ LET out == Prepared(file, RunIdOf(r)) IN
         /\ log' = [log EXCEPT ![r] = PreparedLog(file, out)]
         /\ \/ /\ out.kind = "raise"
               /\ RaiseUnconnected(r, LD, out.err)
               /\ ld' = ld
            \/ /\ out.kind = "empty"
               /\ pc' = [pc EXCEPT ![r][LD] = "returned"]
               /\ ld' = [ld EXCEPT ![r] = [records |-> out.records, i |-> 0, total |-> 0]]
               /\ UNCHANGED <<conn, raised>>
            \/ /\ out.kind = "records"
               /\ pc' = [pc EXCEPT ![r][LD] = "connect"]
               /\ ld' = [ld EXCEPT ![r] =
                           [records |-> out.records, i |-> 0, total |-> Len(out.records)]]
               /\ UNCHANGED <<conn, raised>>
  /\ UNCHANGED <<dagrun, ti, calls, atStart, dbVars>>

\* Where the for loop over range(0, total, batch_size) stands with index i.
LoopStep(i, total) == IF i < total THEN "executemany" ELSE "exit_with"

LoopLog(i, total) ==
  IF i < total THEN <<>> ELSE <<Msg("Done. Inserted rows", total, 0)>>

\* pyodbc.connect(conn_str, timeout=30); cn.cursor(); fast_executemany = True
L_Connect(r) ==
  /\ pc[r][LD] = "connect"
  /\ calls' = [calls EXCEPT ![r][LD].connect = @ + 1]
  /\ \/ /\ conn' = [conn EXCEPT ![r][LD] =
                      [open |-> TRUE, autocommit |-> Autocommit(LD), txn |-> {}]]
        /\ pc' = [pc EXCEPT ![r][LD] = LoopStep(0, ld[r].total)]
        /\ log' = [log EXCEPT ![r] = @ \o LoopLog(0, ld[r].total)]
        /\ raised' = raised
     \/ /\ RaiseUnconnected(r, LD, Error("OperationalError"))
        /\ log' = log
  /\ UNCHANGED <<dagrun, ti, ld, atStart, dbVars>>

\* batch = records[i:i + batch_size]
Batch(records, i) == SubSeq(records, i + 1, Min(i + batch_size, Len(records)))

\* The rows the server holds for the first n records of a batch.  run and try
\* are not columns: they record which try of which run sent the row.
Rows(batch, n, r) ==
  { [ customer_name |-> batch[k].customer_name,
      address |-> batch[k].address,
      birth_date |-> batch[k].birth_date,
      airflow_run_id |-> batch[k].airflow_run_id,
      line |-> batch[k].line,
      run |-> r,
      try |-> ti[r][LD].try_number ] : k \in 1..n }

\* cur.executemany(insert_sql, batch): every row goes in, or the statement
\* fails after some of them did (none, when the table does not exist).
L_ExecuteMany(r) ==
  /\ pc[r][LD] = "executemany"
  /\ calls' = [calls EXCEPT ![r][LD].executemany = @ + 1]
  /\ LET batch == Batch(ld[r].records, ld[r].i) IN
       \/ /\ tableExists
          /\ pc' = [pc EXCEPT ![r][LD] = "commit"]
          /\ raised' = raised
          /\ IF conn[r][LD].autocommit
             THEN /\ table' = table \cup Rows(batch, Len(batch), r)
                  /\ conn' = conn
             ELSE /\ conn' = [conn EXCEPT ![r][LD].txn = @ \cup Rows(batch, Len(batch), r)]
                  /\ table' = table
       \/ \E n \in (IF tableExists THEN {0, Len(batch) - 1} ELSE {0}) :
            /\ pc' = [pc EXCEPT ![r][LD] = "raised"]
            /\ raised' = [raised EXCEPT ![r][LD] = Error("pyodbc.Error")]
            /\ conn' = [conn EXCEPT ![r][LD].txn = {}]
            /\ table' = IF conn[r][LD].autocommit THEN table \cup Rows(batch, n, r) ELSE table
  /\ UNCHANGED <<file, dagrun, ti, ld, log, atStart, tableExists, tableCols, ddlCount>>

\* cn.commit(); logger.info("Inserted ..."); next i, or the end of the loop.
L_Commit(r) ==
  /\ pc[r][LD] = "commit"
  /\ calls' = [calls EXCEPT ![r][LD].commit = @ + 1]
  /\ \/ LET next == ld[r].i + batch_size IN
          /\ table' = table \cup conn[r][LD].txn
          /\ conn' = [conn EXCEPT ![r][LD].txn = {}]
          /\ log' = [log EXCEPT ![r] =
                       @ \o <<Msg("Inserted", Min(next, ld[r].total), ld[r].total)>>
                         \o LoopLog(next, ld[r].total)]
          /\ ld' = [ld EXCEPT ![r].i = next]
          /\ pc' = [pc EXCEPT ![r][LD] = LoopStep(next, ld[r].total)]
          /\ raised' = raised
     \/ /\ RaiseInWith(r, LD, Error("pyodbc.Error"))
        /\ UNCHANGED <<table, log, ld>>
  /\ UNCHANGED <<file, dagrun, ti, atStart, tableExists, tableCols, ddlCount>>

\* The end of the with block: __exit__ commits, and load_data returns.
L_ExitWith(r) ==
  /\ pc[r][LD] = "exit_with"
  /\ \/ /\ table' = table \cup conn[r][LD].txn
        /\ Return(r, LD)
     \/ /\ RaiseInWith(r, LD, Error("pyodbc.Error"))
        /\ table' = table
  /\ UNCHANGED <<file, dagrun, ti, ld, log, calls, atStart, tableExists, tableCols, ddlCount>>

Next ==
  \E r \in Runs :
    \/ Trigger(r)
    \/ \E t \in Tasks : TaskStart(r, t)
    \/ \E t \in Tasks : TaskFinish(r, t)
    \/ \E t \in Tasks : UpstreamFailed(r, t)
    \/ DagRunFinish(r)
    \/ CT_Connect(r)
    \/ CT_Check(r)
    \/ CT_Create(r)
    \/ L_Prepare(r)
    \/ L_Connect(r)
    \/ L_ExecuteMany(r)
    \/ L_Commit(r)
    \/ L_ExitWith(r)

Spec == Init /\ [][Next]_vars


(***************************************************************************)
(* Vocabulary of the properties.                                           *)
(***************************************************************************)
\* The rows the current try of run r's load_csv has in the table.
TryRows(r) == {row \in table : row.run = r /\ row.try = ti[r][LD].try_number}

\* The header has the three columns, judged on the file alone.
HeaderHas(f, name) == \E k \in 1..Len(f.header) : Lower(Strip(f.header[k].name)) = name
ValidHeader(f) ==
  f.exists /\ HeaderHas(f, customer_name) /\ HeaderHas(f, address) /\ HeaderHas(f, birth_date)

\* The customer_name field of data row i as it stands in the file.
RawName(f, i) ==
  LET k == CHOOSE k \in 1..Len(f.header) : Lower(Strip(f.header[k].name)) = customer_name
  IN CellOf(f.header[k].kind, f.pattern, i)

\* Blank in the file, or nothing but whitespace.
TrimsToEmpty(v) == v = NaN \/ Strip(v) = <<>>

\* The file rows the code's cleaning step (lines 75-76) lets through.
Survives(f, i) == Strip(AsTypeStr(RawName(f, i))) # <<>>
Survivors(f) == {i \in 1..f.n : Survives(f, i)}

\* The first HeadLimit members of a set of line numbers.
FirstOf(S) == {i \in S : Cardinality({j \in S : j <= i}) <= HeadLimit}

InWith(r, t) == pc[r][t] = "raised" /\ conn[r][t].open


(***************************************************************************)
(* Properties.                                                             *)
(***************************************************************************)

C2_DropInvariant ==
  ValidHeader(file) => \A row \in table : ~TrimsToEmpty(RawName(file, row.line))

\* C3. Cap invariant: a load that returns has inserted exactly the first 50
\* rows, in file order, of the rows that survive cleaning, or all N of them
\* when N < 50.
C3_CapInvariant ==
  \A r \in Runs :
    (pc[r][LD] = "returned" /\ ValidHeader(file)) =>
      LET surv == Survivors(file)
          rows == TryRows(r)
      IN /\ {row.line : row \in rows} = FirstOf(surv)
         /\ Cardinality(rows) = Min(Cardinality(surv), HeadLimit)
         /\ Len(ld[r].records) = Cardinality(rows)
         /\ \A a \in 1..Len(ld[r].records) - 1 :
              ld[r].records[a].line < ld[r].records[a + 1].line

\* C3 witness: a load returned with more than 50 survivors in the file, one
\* dropped row among the first 50 lines.
C3_Witness ==
  \E r \in Runs :
    /\ pc[r][LD] = "returned"
    /\ ValidHeader(file)
    /\ Cardinality(Survivors(file)) > HeadLimit
    /\ \E i \in 1..HeadLimit : i \notin Survivors(file)
    /\ Cardinality(TryRows(r)) = HeadLimit

\* C4. Missing-column failure: with a file that is missing, or whose header
\* lacks one of the three columns, load_data raises (for the header: the
\* ValueError that names the missing and the found columns) without ever
\* connecting, and the table gets no row.
C4_MissingColumn ==
  ~ValidHeader(file) =>
    /\ table = {}
    /\ \A r \in Runs :
         /\ pc[r][LD] \in {"idle", "prepare", "raised"}
         /\ calls[r][LD].connect = 0
         /\ ~conn[r][LD].open
         /\ conn[r][LD].txn = {}
         /\ (pc[r][LD] = "raised" /\ file.exists) =>
              /\ raised[r][LD].type = "ValueError"
              /\ raised[r][LD].missing =
                   {c \in {customer_name, address, birth_date} : ~HeaderHas(file, c)}
              /\ raised[r][LD].found =
                   [k \in 1..Len(file.header) |-> Lower(Strip(file.header[k].name))]

\* C4 witness: load_data has raised on a file whose header omits birth_date.
C4_Witness ==
  \E r \in Runs :
    /\ file.exists
    /\ ~HeaderHas(file, birth_date)
    /\ pc[r][LD] = "raised"

\* C5. Strict sequencing: within a run load_csv starts only once create_table
\* has succeeded, the two never execute at the same time, a failed
\* create_table means load_csv is never invoked, and the run ends failed when
\* either task failed.
C5_StrictSequencing ==
  \A r \in Runs :
    /\ (pc[r][LD] # "idle" \/ ti[r][LD].try_number > 0) => ti[r][CT].state = "success"
    /\ ~(pc[r][CT] # "idle" /\ pc[r][LD] # "idle")
    /\ ti[r][CT].state \in {"failed", "upstream_failed"} => ti[r][LD].try_number = 0
    /\ dagrun[r] = "success" => \A t \in Tasks : ti[r][t].state = "success"
    /\ (dagrun[r] \in {"success", "failed"} /\ \E t \in Tasks : ti[r][t].state # "success")
         => dagrun[r] = "failed"

\* C5 witness: one run's load_csv executes, another run has failed in
\* create_table and ended failed without load_csv.
C5_Witness ==
  \E r, q \in Runs :
    /\ pc[r][LD] = "connect"
    /\ ti[q][CT].state = "failed"
    /\ ti[q][LD].state = "upstream_failed"
    /\ dagrun[q] = "failed"

C6_State ==
  /\ ddlCount <= 1
  /\ tableExists => (ddlCount = 1 /\ tableCols = TableColumns)
  /\ \A r \in Runs :
       (atStart[r] /\ pc[r][CT] \in {"returned", "raised"}) =>
         /\ calls[r][CT].ddl = 0
         /\ raised[r][CT].type \in {"none", "OperationalError"}

C6_Step ==
  /\ tableExists => (tableExists' /\ tableCols' = tableCols)
  /\ (\E r \in Runs : pc'[r][CT] # pc[r][CT]) => table' = table

\* C6. Idempotent schema creation: over any number of calls at most one
\* CREATE TABLE takes effect and the table then has the specified columns; a
\* call made when the table exists performs no DDL and does not fail on the
\* table being there; no call removes or alters the table or touches a row.
C6_Idempotent == [](C6_State) /\ [][C6_Step]_vars

\* C6 witness: a call that began with the table in place has returned.
C6_Witness ==
  \E r \in Runs :
    /\ atStart[r]
    /\ pc[r][CT] = "returned"
    /\ ddlCount = 1

\* The file has the three columns and every data row is dropped by cleaning.
EmptyInput == ValidHeader(file) /\ \A i \in 1..file.n : ~Survives(file, i)

\* C7. Empty-input no-op: with a valid header and no row left after
\* cleaning, load_data returns normally, never connects, writes nothing and
\* logs a zero-record message.
C7_EmptyNoOp ==
  EmptyInput =>
    /\ table = {}
    /\ \A r \in Runs :
         /\ pc[r][LD] \in {"idle", "prepare", "returned"}
         /\ calls[r][LD] = NoCalls
         /\ ~conn[r][LD].open
         /\ conn[r][LD].txn = {}
         /\ pc[r][LD] = "returned" =>
              /\ Len(log[r]) = 4
              /\ log[r][3] = Msg("Prepared records", 0, 0)
              /\ log[r][4] = Msg("No records to insert.", 0, 0)

\* C7 witness: load_data has returned on a file whose rows were all dropped.
C7_Witness ==
  \E r \in Runs :
    /\ EmptyInput
    /\ file.n > 0
    /\ pc[r][LD] = "returned"

AllRows == table \cup UNION {conn[r][LD].txn : r \in Runs}

\* C8. Run-tag propagation: every row a run sent carries that run's run_id,
\* and no row of another run carries it, retried tries included.
C8_RunTag ==
  /\ \A row \in AllRows : row.airflow_run_id = RunIdOf(row.run)
  /\ \A row \in table : \A r \in Runs : row.airflow_run_id = RunIdOf(r) => row.run = r

\* C8 witness: the table holds rows of two runs, one of them sent by a retry.
C8_Witness ==
  \E a, b \in table : a.run # b.run /\ a.try = 2

\* C9. Connection discipline: a call opens at most one connection, and no
\* connection is open once the callable has returned or raised.
C9_ConnectionReleased ==
  \A r \in Runs : \A t \in Tasks :
    /\ calls[r][t].connect <= 1
    /\ pc[r][t] \in {"returned", "raised"} => ~conn[r][t].open

\* C10. One batch: a try of load_data calls executemany at most once and
\* commit at most once, and the table holds none or all of its records.
C10_SingleBatch ==
  \A r \in Runs :
    /\ calls[r][LD].executemany <= 1
    /\ calls[r][LD].commit <= 1
    /\ pc[r][LD] # "idle" =>
         TryRows(r) \in {{}, Rows(ld[r].records, Len(ld[r].records), r)}

\* C10 witness: a load of exactly 50 records has returned after one
\* executemany and one commit.
C10_Witness ==
  \E r \in Runs :
    /\ pc[r][LD] = "returned"
    /\ ld[r].total = HeadLimit
    /\ calls[r][LD].executemany = 1
    /\ calls[r][LD].commit = 1
    /\ Cardinality(TryRows(r)) = HeadLimit

=============================================================================
